---- MODULE Spec2Model ----
(***************************************************************************)
(* The LIME explainer of xplique (src/xplique/attributions/lime.py):       *)
(* construction of a Lime object and one explain call, step by step, with  *)
(* the tensor helpers of the class as operators.                            *)
(*                                                                         *)
(* Numbers.  Pixel and reference values are counted in halves (1 stands    *)
(* for 0.5), masks and interpretable samples are the integers 0 and 1, so  *)
(* every product and sum of _apply_masks is exact.  A similarity           *)
(* exp(-D^2 / kernel_width^2) is kept as the quantity D^2 it is computed   *)
(* from (the weight is a strictly decreasing function of it).              *)
(*                                                                         *)
(* Collaborators.  The black-box model, the segmenter and the surrogate    *)
(* fitter are external; each is stood for by one fixed deterministic       *)
(* function of its arguments (ModelPredict, Segmenter, Solve).  The        *)
(* outcomes of tf.random.uniform are drawn from a bounded set of streams.  *)
(***************************************************************************)
EXTENDS Integers, Sequences, FiniteSets, TLC

(* ------------------------------ bounds --------------------------------- *)
MaxN == 5

MaxBatchSize == 3

MaxNbSamples == 2

Width == 2

Height == 2

RandLevels == 2

NumStreams == 4

NumClasses == 2

NumMappings == 5

PixelLevels == 4

(* ------------------------- program constants --------------------------- *)
\* inputs.shape[-1] == 3 selects the grey reference value
GreyChannels == 3

\* nb_samples >= 500 without batch_pertubed_samples warns at construction
WarnNbSamples == 500

\* more than 1e4 interpretable features warns in _compute
WarnNumFeatures == 10000

\* len(inputs)//batch_size > 2 switches the prefetch on
PrefetchThreshold == 2

\* the prefetch depth when it is on
PrefetchDepth == 2

\* tf.float32 keeps 24 significant bits
Float32Mantissa == 16777216

(* ------------------------------ helpers -------------------------------- *)
Xs == 1..Width

Ys == 1..Height

Locations == Xs \X Ys

RECURSIVE SumSet(_, _)
SumSet(S, f) ==
    IF S = {} THEN 0
    ELSE LET e == CHOOSE e \in S : TRUE
         IN  f[e] + SumSet(S \ {e}, f)

RECURSIVE MaxSet(_)
MaxSet(S) ==
    LET e == CHOOSE e \in S : TRUE
    IN  IF S = {e} THEN e
        ELSE LET m == MaxSet(S \ {e}) IN IF e > m THEN e ELSE m

SumSeq(s) == SumSet(DOMAIN s, s)

ChannelsOf(inp) == Len(inp[1][1])

\* tf.cast(x, tf.float32) of a number counted in halves: the nearest value with
\* 24 significant bits, ties to even
RECURSIVE Float32Ulp(_, _)
Float32Ulp(a, p) ==
    IF a < Float32Mantissa * p THEN p ELSE Float32Ulp(a, 2 * p)

RoundFloat32(n) ==
    LET a  == IF n < 0 THEN -n ELSE n
        p  == Float32Ulp(a, 1)
        q  == a \div p
        r  == a % p
        up == 2 * r > p \/ (2 * r = p /\ q % 2 = 1)
        m  == (IF up THEN q + 1 ELSE q) * p
    IN  IF n < 0 THEN -m ELSE m

CastFloat32(v) == [c \in DOMAIN v |-> RoundFloat32(v[c])]

\* the flattened view of a (W, H, C) tensor: its cells
Cells(C) == Locations \X (1..C)

(* --------------------------- inputs of a call -------------------------- *)
\* image k with C channels, values in halves
Image(k, C) ==
    [x \in Xs |-> [y \in Ys |-> [c \in 1..C |->
        (k + x + 2 * y + 3 * c) % PixelLevels]]]

OneHot(l) == [k \in 1..NumClasses |-> IF k = l THEN 1 ELSE 0]

\* the groupings the segmenter answers with
MappingOf(k) ==
    [x \in Xs |-> [y \in Ys |->
        CASE k = 1 -> 0
          [] k = 2 -> (x + y) % 2
          [] k = 3 -> (x + y + 1) % 2
          [] k = 4 -> 2 * ((x + y) % 2)
          [] k = 5 -> x - 1
          [] OTHER -> y - 1]]

\* The segmenter is a pure function of the input; "uniform" data sets segment
\* every image into two groups, "mixed" ones into one to three groups.
Segmenter(kind, k) ==
    IF kind = "uniform" THEN MappingOf(2 + (k % 2))
    ELSE MappingOf(1 + (k % NumMappings))

\* The sampler, the model, the kernel and the fitter are the caller's
\* callables and may raise: fault names the stage and the input of the call
\* that does, NoFault when none does.
NoFault == [stage |-> "none", idx |-> 0]

Call(kind, start, n, C) ==
    [inputs |-> [i \in 1..n |-> Image(start + i, C)],
     labels |-> [i \in 1..n |-> OneHot(1 + ((start + i) % NumClasses))],
     segs   |-> [i \in 1..n |-> Segmenter(kind, start + i)],
     fault  |-> NoFault]

(* ----------------------- the random source ----------------------------- *)
\* The value tf.random.uniform yields at position pos of stream s, as a level
\* u standing for u / RandLevels in [0, 1).
Uniform(s, pos) ==
    CASE s = 0 -> 0
      [] s = 1 -> RandLevels - 1
      [] OTHER -> (pos * (s - 1) + (pos \div s)) % RandLevels

\* tf.random.uniform(shape=[nb_samples, num_features]) read at position pos
UniformSampling(s, pos, nb_samples, nf) ==
    [r \in 1..nb_samples |-> [f \in 1..nf |->
        Uniform(s, pos + (r - 1) * nf + (f - 1))]]

(* ------------------- static helpers of the class ----------------------- *)
\* _get_exp_kernel_func: the kernel built for a distance mode, or the ValueError
GetExpKernelFuncNoCheck(distance_mode) ==
    IF distance_mode = "cosine" THEN "cosine" ELSE "euclidean"

GetExpKernelFunc(distance_mode) ==
    CASE distance_mode = "euclidean" -> "euclidean"
      [] distance_mode = "cosine"    -> "cosine"
      [] OTHER                       -> "ValueError"

\* _default_pertub_function: prob is a level p standing for p / RandLevels;
\* sample = cast(greater(probs, uniform_sampling), int32)
DefaultPertubFunctionGE(prob, uniform_sampling) ==
    [r \in DOMAIN uniform_sampling |-> [f \in DOMAIN uniform_sampling[r] |->
        IF prob >= uniform_sampling[r][f] THEN 1 ELSE 0]]

DefaultPertubFunction(prob, uniform_sampling) ==
    [r \in DOMAIN uniform_sampling |-> [f \in DOMAIN uniform_sampling[r] |->
        IF prob > uniform_sampling[r][f] THEN 1 ELSE 0]]

\* _get_masks: tf.gather(interpret_samples, indices=mapping, axis=1); group g
\* is column g + 1 of a row
GetMasksFirstColumn(interpret_samples, mapping) ==
    [r \in DOMAIN interpret_samples |->
        [x \in DOMAIN mapping |-> [y \in DOMAIN mapping[x] |->
            interpret_samples[r][mapping[1][1] + 1]]]]

GetMasks(interpret_samples, mapping) ==
    [r \in DOMAIN interpret_samples |->
        [x \in DOMAIN mapping |-> [y \in DOMAIN mapping[x] |->
            interpret_samples[r][mapping[x][y] + 1]]]]

\* _apply_masks: original * mask + (1 - mask) * ref_value, the mask repeated
\* over the channels
ApplyMasksNoComplement(original_input, sample_masks, ref_value) ==
    [r \in DOMAIN sample_masks |->
        [x \in DOMAIN original_input |-> [y \in DOMAIN original_input[x] |->
            [c \in DOMAIN original_input[x][y] |->
                original_input[x][y][c] * sample_masks[r][x][y]
                + sample_masks[r][x][y] * ref_value[c]]]]]

ApplyMasks(original_input, sample_masks, ref_value) ==
    [r \in DOMAIN sample_masks |->
        [x \in DOMAIN original_input |-> [y \in DOMAIN original_input[x] |->
            [c \in DOMAIN original_input[x][y] |->
                original_input[x][y][c] * sample_masks[r][x][y]
                + (1 - sample_masks[r][x][y]) * ref_value[c]]]]]

\* _broadcast_explanation: tf.gather(explanation, indices=mapping)
BroadcastExplanationFirstGroup(explanation, mapping) ==
    [x \in DOMAIN mapping |-> [y \in DOMAIN mapping[x] |-> explanation[1]]]

BroadcastExplanation(explanation, mapping) ==
    [x \in DOMAIN mapping |-> [y \in DOMAIN mapping[x] |->
        explanation[mapping[x][y] + 1]]]

\* reduce_max over the two spatial axes of one grouping
ReduceMax(mapping) ==
    MaxSet({mapping[x][y] : x \in DOMAIN mapping, y \in DOMAIN mapping[1]})

\* lines 356-357: the per-input maximum, plus one
NumFeaturesGlobalMax(mappings) ==
    [i \in DOMAIN mappings |->
        MaxSet({ReduceMax(mappings[k]) : k \in DOMAIN mappings}) + 1]

NumFeatures(mappings) ==
    [i \in DOMAIN mappings |-> ReduceMax(mappings[i]) + 1]

\* lines 367-368: expand_dims and repeat, (N, L) to (N, nb_samples, L)
AugmentLabels(labels, nb_samples) ==
    [i \in DOMAIN labels |-> [r \in 1..nb_samples |-> labels[i]]]

\* lines 371-373
NbPrefetch(n, batch_size) ==
    IF n \div batch_size > PrefetchThreshold THEN PrefetchDepth ELSE 0

\* Dataset.from_tensor_slices(...).batch(batch_size): the index ranges of the
\* chunks, in order, the last one possibly short
BatchDropRemainder(n, batch_size) ==
    [b \in 1..(n \div batch_size) |->
        [k \in 1..batch_size |-> (b - 1) * batch_size + k]]

Batch(n, batch_size) ==
    [b \in 1..((n + batch_size - 1) \div batch_size) |->
        [k \in 1..(IF b * batch_size <= n THEN batch_size
                   ELSE n - (b - 1) * batch_size) |->
            (b - 1) * batch_size + k]]

(* ------------------------- similarity kernels -------------------------- *)
SqDist(a, b) ==
    LET C == ChannelsOf(a)
        d == [e \in Cells(C) |->
                (a[e[1][1]][e[1][2]][e[2]] - b[e[1][1]][e[1][2]][e[2]])
                * (a[e[1][1]][e[1][2]][e[2]] - b[e[1][1]][e[1][2]][e[2]])]
    IN  SumSet(Cells(C), d)

Dot(a, b) ==
    LET C == ChannelsOf(a)
        d == [e \in Cells(C) |->
                a[e[1][1]][e[1][2]][e[2]] * b[e[1][1]][e[1][2]][e[2]]]
    IN  SumSet(Cells(C), d)

\* _euclidean_similarity_kernel: exp(-norm(input - sample)^2 / kernel_width^2),
\* kept as norm^2
EuclideanSimilarityKernel(original_input, sample) ==
    SqDist(original_input, sample)

\* _cosine_similarity_kernel: distance = 1 - keras cosine_similarity, which is
\* the negated cosine; kept as the cosine in sixteenths, squared (the inputs
\* are non-negative, so it orders the weights), 0 when a norm is 0
CosineSimilarityKernel(original_input, sample) ==
    LET d  == Dot(original_input, sample)
        na == Dot(original_input, original_input)
        nb == Dot(sample, sample)
    IN  IF na * nb = 0 THEN 0 ELSE (16 * d * d) \div (na * nb)

\* a user kernel working in the interpretable space: the features switched off
CustomSimilarityKernel(interpret_sample) ==
    Cardinality({f \in DOMAIN interpret_sample : interpret_sample[f] = 0})

SimilarityKernel(kernel, original_input, sample, interpret_sample) ==
    CASE kernel = "euclidean" -> EuclideanSimilarityKernel(original_input, sample)
      [] kernel = "cosine"    -> CosineSimilarityKernel(original_input, sample)
      [] OTHER                -> CustomSimilarityKernel(interpret_sample)

\* _compute_similarities: the kernel on every perturbed sample of one input
ComputeSimilarities(curr_input, samples, interpret_samples, kernel) ==
    [r \in DOMAIN samples |->
        SimilarityKernel(kernel, curr_input, samples[r], interpret_samples[r])]

(* --------------------------- the black box ----------------------------- *)
\* the model's score vector for one perturbed sample
ModelPredict(sample) ==
    LET C == ChannelsOf(sample)
        v == [e \in Cells(C) |->
                sample[e[1][1]][e[1][2]][e[2]] * (e[1][1] + Width * (e[1][2] - 1))]
    IN  [l \in 1..NumClasses |-> l * SumSet(Cells(C), v)]

\* _batch_predictions of the base class: the model on sub-batches of
\* batch_pertubed_samples (0: all at once), then sum(prediction * label)
NbModelCalls(nb_samples, batch_pertubed_samples) ==
    IF batch_pertubed_samples = 0 THEN 1
    ELSE (nb_samples + batch_pertubed_samples - 1) \div batch_pertubed_samples

BatchPredictions(samples, labels) ==
    [r \in DOMAIN samples |->
        SumSeq([l \in 1..NumClasses |-> ModelPredict(samples[r])[l] * labels[r][l]])]

(* ------------------------- the surrogate fitter ------------------------ *)
\* what a fit from scratch leaves in coef_: one coefficient per column of the
\* interpretable samples
Solve(int_samples, samples_label, samples_weight) ==
    [f \in DOMAIN int_samples[1] |->
        SumSeq([r \in DOMAIN int_samples |->
            int_samples[r][f] * (samples_label[r] + 1) * (samples_weight[r] + 1)])]

\* explain_model.fit(...) on the fitter object m, then its coef_.  A "ridge"
\* fitter starts every fit from scratch; a "warm" one (warm_start=True) starts
\* from the coef_ the previous fit left and refuses another number of columns.
FitFails(m, int_samples) ==
    /\ m.kind = "warm"
    /\ m.coef_ # <<>>
    /\ Len(m.coef_) # Len(int_samples[1])

Fit(m, int_samples, samples_label, samples_weight) ==
    LET s == Solve(int_samples, samples_label, samples_weight)
    IN  IF m.kind = "warm" /\ m.coef_ # <<>>
        THEN [m EXCEPT !.coef_ = [f \in DOMAIN s |-> m.coef_[f] + s[f]]]
        ELSE [m EXCEPT !.coef_ = s]

(* ------------------------------- state --------------------------------- *)
VARIABLES
    args,                  \* the arguments of Lime.__init__
    call,                  \* the arguments of explain, and the segmenter's answer
    rng,                   \* the random source: its stream and position
    interpretable_model,   \* the fitter object handed to __init__
    pc,                    \* where the program is
    error,                 \* the exception that ended it, "none" if none
    warned,                \* the warnings emitted
    self,                  \* the attributes __init__ sets
    ref_values,            \* explain's reference value
    mappings,              \* one grouping per input
    num_features,          \* _compute's locals
    augmented_labels,
    nb_prefetch,
    batches,               \* the chunks the data set has not yielded yet
    prefetched,            \* the chunks the prefetch stage holds ready
    explanations,
    complete_explanations,
    chunk,                 \* the chunk in hand: b_inp, b_labels, b_mappings, b_num_features
    j,                     \* the element the running map_fn or loop is at
    interpret_samples,
    sample_masks,
    pertubed_samples,
    samples_labels,
    similarities,
    log                    \* the calls made to the collaborators, in order

config == <<args, call>>

compute_locals ==
    <<mappings, num_features, augmented_labels, nb_prefetch, batches,
      prefetched, explanations, complete_explanations>>

chunk_locals ==
    <<chunk, j, interpret_samples, sample_masks, pertubed_samples,
      samples_labels, similarities>>

vars ==
    <<args, call, rng, interpretable_model, pc, error, warned, self, ref_values,
      mappings, num_features, augmented_labels, nb_prefetch, batches,
      prefetched, explanations, complete_explanations, chunk, j,
      interpret_samples,
      sample_masks, pertubed_samples, samples_labels, similarities, log>>

(* ----------------------- the calls explored ---------------------------- *)
RefNone == [none |-> TRUE, v |-> <<>>]

RefOf(len) == [none |-> FALSE, v |-> [c \in 1..len |-> c + 1]]

\* batch_pertubed_samples = 0 stands for None, similarity_kernel = "None" for
\* None; pertub_func and map_to_interpret_space are left to their defaults
Args(bs, fitter, kernel, ref, nb, bps, mode, p) ==
    [batch_size |-> bs, interpretable_model |-> fitter,
     similarity_kernel |-> kernel, ref_values |-> ref, nb_samples |-> nb,
     batch_pertubed_samples |-> bps, distance_mode |-> mode, prob |-> p]

ChannelCounts == {1, GreyChannels, GreyChannels + 1}

\* every combination of the constructor's options, then a call on one input
CtorScenarios ==
    {[args   |-> Args(bs, "ridge", k, ref, nb, bps, mode, 1),
      call   |-> Call("mixed", 0, 1, C),
      stream |-> 2] :
        bs \in {1, 2}, k \in {"None", "custom"},
        ref \in {RefNone, RefOf(1), RefOf(GreyChannels)},
        nb \in {1, WarnNbSamples - 1, WarnNbSamples}, bps \in {0, 1},
        mode \in {"euclidean", "cosine", "manhattan"}, C \in ChannelCounts}

\* one input: every grouping, sample count, probability and stream
UnitScenarios ==
    UNION {{[args   |-> Args(1, "ridge", "None", ref, nb, bps, "euclidean", p),
             call   |-> Call("mixed", start, 1, C),
             stream |-> s] :
                nb \in 1..MaxNbSamples, bps \in {0, 1}, p \in 0..RandLevels,
                start \in 0..(NumMappings - 1), s \in 0..(NumStreams - 1),
                ref \in {RefNone, RefOf(C)}} : C \in ChannelCounts}

\* several inputs: every input count, batch size and fitter
BatchScenarios ==
    {[args   |-> Args(bs, fitter, "None", RefNone, nb, 0, "euclidean", 1),
      call   |-> Call(kind, start, n, GreyChannels),
      stream |-> s] :
        bs \in 1..MaxBatchSize, fitter \in {"ridge", "warm"},
        nb \in 1..MaxNbSamples, kind \in {"uniform", "mixed"},
        start \in {0, 1}, n \in 2..MaxN, s \in 0..(NumStreams - 1)}

\* several inputs, one collaborator call of which raises
FaultScenarios ==
    UNION {{[args   |-> Args(bs, "ridge", "None", RefNone, MaxNbSamples, 1,
                             "euclidean", 1),
             call   |-> [Call("uniform", 0, n, GreyChannels) EXCEPT
                            !.fault = [stage |-> st, idx |-> i]],
             stream |-> 2] :
                bs \in 1..MaxBatchSize, i \in 1..n,
                st \in {"sampler", "model", "kernel", "fit"}} : n \in 2..MaxN}

Scenarios == CtorScenarios \cup UnitScenarios \cup BatchScenarios \cup FaultScenarios

N == Len(call.inputs)

Unset ==
    [batch_size |-> 0, similarity_kernel |-> "unset", ref_values |-> RefNone,
     nb_samples |-> 0, batch_pertubed_samples |-> 0, prob |-> 0]

Event(op, i, data) == [op |-> op, i |-> i, data |-> data]

\* the call of the collaborator of this stage on input i raises
Raises(stage, i) == call.fault = [stage |-> stage, idx |-> i]

Init ==
    \E sc \in Scenarios :
        /\ args = sc.args
        /\ call = sc.call
        /\ rng = [stream |-> sc.stream, pos |-> 0]
        /\ interpretable_model = [kind |-> sc.args.interpretable_model, coef_ |-> <<>>]
        /\ pc = "new"
        /\ error = "none"
        /\ warned = {}
        /\ self = Unset
        /\ ref_values = <<>>
        /\ mappings = <<>>
        /\ num_features = <<>>
        /\ augmented_labels = <<>>
        /\ nb_prefetch = 0
        /\ batches = <<>>
        /\ prefetched = <<>>
        /\ explanations = <<>>
        /\ complete_explanations = <<>>
        /\ chunk = <<>>
        /\ j = 0
        /\ interpret_samples = <<>>
        /\ sample_masks = <<>>
        /\ pertubed_samples = <<>>
        /\ samples_labels = <<>>
        /\ similarities = <<>>
        /\ log = <<>>

(* --------------------------- Lime.__init__ ----------------------------- *)
\* lines 162-163: the kernel in use, or the ValueError of _get_exp_kernel_func
KernelOf(a) ==
    IF a.similarity_kernel = "None" THEN GetExpKernelFunc(a.distance_mode)
    ELSE a.similarity_kernel

\* lines 171-179
OomWarningAbove(a) ==
    IF a.nb_samples > WarnNbSamples /\ a.batch_pertubed_samples = 0
    THEN {"nb_samples"} ELSE {}

OomWarning(a) ==
    IF a.nb_samples >= WarnNbSamples /\ a.batch_pertubed_samples = 0
    THEN {"nb_samples"} ELSE {}

\* lines 162-189; super().__init__ keeps model and batch_size
LimeInit ==
    /\ pc = "new"
    /\ IF KernelOf(args) = "ValueError"
       THEN /\ pc' = "raised"
            /\ error' = "distance_mode"
            /\ UNCHANGED <<warned, self>>
       ELSE /\ warned' = warned \cup OomWarning(args)
            /\ self' = [batch_size |-> args.batch_size,
                        similarity_kernel |-> KernelOf(args),
                        ref_values |-> args.ref_values,
                        nb_samples |-> args.nb_samples,
                        batch_pertubed_samples |-> args.batch_pertubed_samples,
                        prob |-> args.prob]
            /\ pc' = "ready"
            /\ error' = error
    /\ UNCHANGED <<config, rng, interpretable_model, ref_values, compute_locals,
                   chunk_locals, log>>

(* ----------------------------- Lime.explain ---------------------------- *)
\* lines 218-222
DefaultRefValuesAtLeastGrey(C) ==
    IF C >= GreyChannels THEN [c \in 1..C |-> 1] ELSE [c \in 1..C |-> 0]

DefaultRefValues(C) ==
    IF C = GreyChannels THEN [c \in 1..C |-> 1] ELSE [c \in 1..C |-> 0]

\* the assertion of lines 224-226
RefValuesUnchecked(ref, C) == TRUE

RefValuesMatch(ref, C) == Len(ref) = C

\* lines 217-227; a call is explored when its sample count is within the bound
ExplainRefValues ==
    /\ pc = "ready"
    /\ self.nb_samples <= MaxNbSamples
    /\ LET C == ChannelsOf(call.inputs[1])
       IN  IF self.ref_values.none
           THEN /\ ref_values' = DefaultRefValues(C)
                /\ pc' = "segment"
                /\ error' = error
           ELSE IF RefValuesMatch(self.ref_values.v, C)
           THEN /\ ref_values' = CastFloat32(self.ref_values.v)
                /\ pc' = "segment"
                /\ error' = error
           ELSE /\ pc' = "raised"
                /\ error' = "ref_values"
                /\ ref_values' = ref_values
    /\ UNCHANGED <<config, rng, interpretable_model, warned, self, compute_locals,
                   chunk_locals, log>>

\* line 230
MapToInterpretSpace ==
    /\ pc = "segment"
    /\ mappings' = call.segs
    /\ log' = Append(log, Event("segmenter", 0, <<>>))
    /\ pc' = "compute"
    /\ UNCHANGED <<config, rng, interpretable_model, error, warned, self, ref_values,
                   num_features, augmented_labels, nb_prefetch, batches,
                   prefetched, explanations, complete_explanations, chunk_locals>>

(* ----------------------------- Lime._compute --------------------------- *)
\* lines 359-364
FeatureWarning(nf) ==
    IF MaxSet({nf[i] : i \in DOMAIN nf}) > WarnNumFeatures
    THEN {"num_features"} ELSE {}

\* lines 353-378, up to the data set the loop iterates
ComputeSetup ==
    /\ pc = "compute"
    /\ explanations' = <<>>
    /\ num_features' = NumFeatures(mappings)
    /\ warned' = warned \cup FeatureWarning(NumFeatures(mappings))
    /\ augmented_labels' = AugmentLabels(call.labels, self.nb_samples)
    /\ nb_prefetch' = NbPrefetch(N, self.batch_size)
    /\ batches' = Batch(N, self.batch_size)
    /\ prefetched' = <<>>
    /\ pc' = "next_batch"
    /\ UNCHANGED <<config, rng, interpretable_model, error, self, ref_values,
                   mappings, complete_explanations, chunk_locals, log>>

\* one element of the zipped data set: slice i of every tensor
SliceLabelsShifted(i) ==
    [idx |-> i, inp |-> call.inputs[i], labels |-> augmented_labels[(i % N) + 1],
     mapping |-> mappings[i], num_features |-> num_features[i]]

Slice(i) ==
    [idx |-> i, inp |-> call.inputs[i], labels |-> augmented_labels[i],
     mapping |-> mappings[i], num_features |-> num_features[i]]

\* the chunk batch() makes of the elements with the indices ixs
ChunkOf(ixs) == [k \in DOMAIN ixs |-> Slice(ixs[k])]

\* while the loop of line 376 runs
InLoop == pc \in {"next_batch", "generate", "predict", "similar", "fit"}

\* line 378, prefetch(nb_prefetch): while the loop runs, the data set's own
\* thread makes up to nb_prefetch chunks ahead of the loop body, in order
Prefetch ==
    /\ InLoop
    /\ batches # <<>>
    /\ Len(prefetched) < nb_prefetch
    /\ prefetched' = Append(prefetched, ChunkOf(Head(batches)))
    /\ batches' = Tail(batches)
    /\ UNCHANGED <<config, rng, interpretable_model, pc, error, warned, self,
                   ref_values, mappings, num_features, augmented_labels,
                   nb_prefetch, explanations, complete_explanations,
                   chunk_locals, log>>

\* the loop body starts on the next chunk: the oldest one made ahead if there
\* is one
TakeChunk ==
    /\ IF prefetched # <<>>
       THEN /\ chunk' = Head(prefetched)
            /\ prefetched' = Tail(prefetched)
            /\ batches' = batches
       ELSE /\ chunk' = ChunkOf(Head(batches))
            /\ batches' = Tail(batches)
            /\ prefetched' = prefetched
    /\ j' = 1
    /\ interpret_samples' = <<>>
    /\ sample_masks' = <<>>
    /\ pertubed_samples' = <<>>
    /\ samples_labels' = <<>>
    /\ similarities' = <<>>
    /\ pc' = "generate"

\* the loop is left for line 433
EndLoop ==
    /\ pc' = "stack"
    /\ UNCHANGED <<batches, prefetched, chunk_locals>>

\* line 376: the next chunk, or the end of the loop
NextBatchLeavesAfterFirstChunk ==
    /\ pc = "next_batch"
    /\ IF explanations = <<>> /\ (prefetched # <<>> \/ batches # <<>>)
       THEN TakeChunk
       ELSE EndLoop
    /\ UNCHANGED <<config, rng, interpretable_model, error, warned, self, ref_values,
                   mappings, num_features, augmented_labels, nb_prefetch,
                   explanations, complete_explanations, log>>

NextBatch ==
    /\ pc = "next_batch"
    /\ IF prefetched # <<>> \/ batches # <<>>
       THEN TakeChunk
       ELSE EndLoop
    /\ UNCHANGED <<config, rng, interpretable_model, error, warned, self, ref_values,
                   mappings, num_features, augmented_labels, nb_prefetch,
                   explanations, complete_explanations, log>>

\* lines 381-392 and 606-610: _generate_sample on element j of the chunk.
\* map_fn stacks the elements' results and raises when one has another shape
\* than the first.
GenerateSample ==
    /\ pc = "generate"
    /\ LET e     == chunk[j]
           u     == UniformSampling(rng.stream, rng.pos, self.nb_samples, e.num_features)
           isamp == DefaultPertubFunction(self.prob, u)
           masks == GetMasks(isamp, e.mapping)
           pert  == ApplyMasks(e.inp, masks, ref_values)
       IN  /\ log' = Append(log, Event("sampler", e.idx, <<>>))
           /\ IF Raises("sampler", e.idx)
              THEN /\ pc' = "raised"
                   /\ error' = "sampler"
                   /\ UNCHANGED <<rng, j, interpret_samples, sample_masks,
                                  pertubed_samples>>
              ELSE IF j > 1 /\ e.num_features # chunk[1].num_features
              THEN /\ rng' = [rng EXCEPT !.pos = @ + self.nb_samples * e.num_features]
                   /\ pc' = "raised"
                   /\ error' = "map_fn_shape"
                   /\ UNCHANGED <<j, interpret_samples, sample_masks, pertubed_samples>>
              ELSE /\ rng' = [rng EXCEPT !.pos = @ + self.nb_samples * e.num_features]
                   /\ interpret_samples' = Append(interpret_samples, isamp)
                   /\ sample_masks' = Append(sample_masks, masks)
                   /\ pertubed_samples' = Append(pertubed_samples, pert)
                   /\ j' = IF j = Len(chunk) THEN 1 ELSE j + 1
                   /\ pc' = IF j = Len(chunk) THEN "predict" ELSE "generate"
                   /\ error' = error
    /\ UNCHANGED <<config, interpretable_model, warned, self, ref_values,
                   compute_locals, chunk, samples_labels, similarities>>

\* lines 395-404: _batch_predictions on element j
BatchPredictionsStep ==
    /\ pc = "predict"
    /\ IF Raises("model", chunk[j].idx)
       THEN /\ log' = Append(log, Event("model", chunk[j].idx, <<>>))
            /\ pc' = "raised"
            /\ error' = "model"
            /\ UNCHANGED <<j, samples_labels>>
       ELSE /\ samples_labels' =
                   Append(samples_labels,
                          BatchPredictions(pertubed_samples[j], chunk[j].labels))
            /\ log' = log \o
                   [k \in 1..NbModelCalls(self.nb_samples, self.batch_pertubed_samples)
                       |-> Event("model", chunk[j].idx, <<>>)]
            /\ j' = IF j = Len(chunk) THEN 1 ELSE j + 1
            /\ pc' = IF j = Len(chunk) THEN "similar" ELSE "predict"
            /\ error' = error
    /\ UNCHANGED <<config, rng, interpretable_model, warned, self, ref_values,
                   compute_locals, chunk, interpret_samples, sample_masks,
                   pertubed_samples, similarities>>

\* lines 407-416: _compute_similarities on element j
ComputeSimilaritiesStep ==
    /\ pc = "similar"
    /\ log' = Append(log, Event("kernel", chunk[j].idx, <<>>))
    /\ IF Raises("kernel", chunk[j].idx)
       THEN /\ pc' = "raised"
            /\ error' = "kernel"
            /\ UNCHANGED <<j, similarities>>
       ELSE /\ similarities' =
                   Append(similarities,
                          ComputeSimilarities(chunk[j].inp, pertubed_samples[j],
                                              interpret_samples[j],
                                              self.similarity_kernel))
            /\ j' = IF j = Len(chunk) THEN 1 ELSE j + 1
            /\ pc' = IF j = Len(chunk) THEN "fit" ELSE "similar"
            /\ error' = error
    /\ UNCHANGED <<config, rng, interpretable_model, warned, self, ref_values,
                   compute_locals, chunk, interpret_samples, sample_masks,
                   pertubed_samples, samples_labels>>

\* lines 419-431: one turn of the training loop; explain_model is the very
\* object interpretable_model
FitStepSkipsFailure ==
    /\ pc = "fit"
    /\ IF FitFails(interpretable_model, interpret_samples[j])
          \/ Raises("fit", chunk[j].idx)
       THEN /\ error' = "fit"
            /\ log' = Append(log, Event("fit", chunk[j].idx, <<>>))
            /\ j' = IF j = Len(chunk) THEN 1 ELSE j + 1
            /\ pc' = IF j = Len(chunk) THEN "next_batch" ELSE "fit"
            /\ UNCHANGED <<interpretable_model, explanations>>
       ELSE LET fitted == Fit(interpretable_model, interpret_samples[j],
                              samples_labels[j], similarities[j])
            IN  /\ interpretable_model' = fitted
                /\ explanations' = Append(explanations, fitted.coef_)
                /\ log' = Append(log, Event("fit", chunk[j].idx,
                                 <<interpret_samples[j], samples_labels[j],
                                   similarities[j], fitted.coef_>>))
                /\ j' = IF j = Len(chunk) THEN 1 ELSE j + 1
                /\ pc' = IF j = Len(chunk) THEN "next_batch" ELSE "fit"
                /\ error' = error
    /\ UNCHANGED <<config, rng, warned, self, ref_values, mappings, num_features,
                   augmented_labels, nb_prefetch, batches, prefetched,
                   complete_explanations,
                   chunk, interpret_samples, sample_masks, pertubed_samples,
                   samples_labels, similarities>>

FitStep ==
    /\ pc = "fit"
    /\ IF FitFails(interpretable_model, interpret_samples[j])
          \/ Raises("fit", chunk[j].idx)
       THEN /\ pc' = "raised"
            /\ error' = "fit"
            /\ log' = Append(log, Event("fit", chunk[j].idx, <<>>))
            /\ UNCHANGED <<interpretable_model, explanations, j>>
       ELSE LET fitted == Fit(interpretable_model, interpret_samples[j],
                              samples_labels[j], similarities[j])
            IN  /\ interpretable_model' = fitted
                /\ explanations' = Append(explanations, fitted.coef_)
                /\ log' = Append(log, Event("fit", chunk[j].idx,
                                 <<interpret_samples[j], samples_labels[j],
                                   similarities[j], fitted.coef_>>))
                /\ j' = IF j = Len(chunk) THEN 1 ELSE j + 1
                /\ pc' = IF j = Len(chunk) THEN "next_batch" ELSE "fit"
                /\ error' = error
    /\ UNCHANGED <<config, rng, warned, self, ref_values, mappings, num_features,
                   augmented_labels, nb_prefetch, batches, prefetched,
                   complete_explanations,
                   chunk, interpret_samples, sample_masks, pertubed_samples,
                   samples_labels, similarities>>

\* line 433: tf.stack raises unless every vector has the same length
Stackable(vectors) ==
    \A a, b \in DOMAIN vectors : Len(vectors[a]) = Len(vectors[b])

StackExplanations ==
    /\ pc = "stack"
    /\ IF Stackable(explanations)
       THEN /\ pc' = "broadcast"
            /\ error' = error
       ELSE /\ pc' = "raised"
            /\ error' = "stack_shape"
    /\ UNCHANGED <<config, rng, interpretable_model, warned, self, ref_values,
                   compute_locals, chunk_locals, log>>

\* lines 435-441: explanation i with grouping i
BroadcastAll(expls, maps) ==
    [i \in DOMAIN expls |-> BroadcastExplanation(expls[i], maps[i])]

BroadcastExplanations ==
    /\ pc = "broadcast"
    /\ complete_explanations' = BroadcastAll(explanations, mappings)
    /\ log' = log \o [i \in DOMAIN explanations |-> Event("broadcast", i, <<>>)]
    /\ pc' = "done"
    /\ UNCHANGED <<config, rng, interpretable_model, error, warned, self, ref_values,
                   mappings, num_features, augmented_labels, nb_prefetch, batches,
                   prefetched, explanations, chunk_locals>>

Next ==
    \/ LimeInit
    \/ ExplainRefValues
    \/ MapToInterpretSpace
    \/ ComputeSetup
    \/ Prefetch
    \/ NextBatch
    \/ GenerateSample
    \/ BatchPredictionsStep
    \/ ComputeSimilaritiesStep
    \/ FitStep
    \/ StackExplanations
    \/ BroadcastExplanations

Spec == Init /\ [][Next]_vars

(* ======================================================================= *)
(*                               the claims                                *)
(* ======================================================================= *)
Ended == pc \in {"done", "raised"}

InExplain == pc \notin {"new", "ready"} /\ error # "distance_mode"

InCompute == InExplain /\ num_features # <<>>

FeatureCount(i) == ReduceMax(call.segs[i]) + 1

IsFit(e) == e.op = "fit"

FitEvents == SelectSeq(log, IsFit)

\* what input i alone determines, read off the call and the random stream
StreamPos(i) ==
    self.nb_samples * SumSeq([k \in 1..(i - 1) |-> FeatureCount(k)])

ExpInterpret(i) ==
    DefaultPertubFunction(self.prob,
        UniformSampling(rng.stream, StreamPos(i), self.nb_samples, FeatureCount(i)))

ExpPertubed(i) ==
    ApplyMasks(call.inputs[i], GetMasks(ExpInterpret(i), call.segs[i]), ref_values)

ExpLabels(i) ==
    BatchPredictions(ExpPertubed(i), [r \in 1..self.nb_samples |-> call.labels[i]])

ExpWeights(i) ==
    ComputeSimilarities(call.inputs[i], ExpPertubed(i), ExpInterpret(i),
                        self.similarity_kernel)

\* C1 (as claimed): a call on two inputs whose groupings give different
\* feature counts completes and returns one explanation per input, the
\* coefficient vectors having the two feature counts and every output the
\* input's width x height.
C1_DifferingCountsComplete ==
    (/\ Ended
     /\ InExplain
     /\ error # "ref_values"
     /\ args.interpretable_model = "ridge"
     /\ self.batch_size = 1
     /\ N = 2
     /\ FeatureCount(1) # FeatureCount(2))
    => /\ pc = "done"
       /\ Len(complete_explanations) = 2
       /\ \A i \in 1..2 :
            /\ Len(explanations[i]) = FeatureCount(i)
            /\ DOMAIN complete_explanations[i] = Xs
            /\ \A x \in Xs : DOMAIN complete_explanations[i][x] = Ys

\* C2 (as claimed): a distance_mode other than "euclidean" and "cosine" makes
\* construction raise the configuration error, whatever the other options.
C2_UnknownModeAlwaysRaises ==
    (pc # "new" /\ args.distance_mode \notin {"euclidean", "cosine"})
    => (pc = "raised" /\ error = "distance_mode")

\* C2 (amended): with similarity_kernel left unset, a distance_mode other than
\* "euclidean" and "cosine" makes construction raise the configuration error
\* before anything of explain runs, whatever the other options; with a custom
\* similarity_kernel the distance_mode is not looked at and construction
\* succeeds with that kernel.
C2_UnknownModeRaisesUnlessCustomKernel ==
    (pc # "new" /\ args.distance_mode \notin {"euclidean", "cosine"})
    => IF args.similarity_kernel = "None"
       THEN /\ pc = "raised"
            /\ error = "distance_mode"
            /\ self = Unset
            /\ log = <<>>
       ELSE /\ error # "distance_mode"
            /\ self.similarity_kernel = args.similarity_kernel

C2_Witness ==
    /\ pc = "raised"
    /\ error = "distance_mode"
    /\ args.distance_mode = "manhattan"
    /\ args.similarity_kernel = "None"
    /\ args.nb_samples = WarnNbSamples
    /\ ~args.ref_values.none

\* C3: when the configured reference value has another length than the
\* inputs have channels, explain ends with the dimension error and neither the
\* segmenter, the sampler, the model, the kernel nor the fitter has been called.
C3_RefMismatchFailsFirst ==
    (/\ InExplain
     /\ ~self.ref_values.none
     /\ Len(self.ref_values.v) # ChannelsOf(call.inputs[1]))
    => /\ pc = "raised"
       /\ error = "ref_values"
       /\ log = <<>>

C3_Witness ==
    /\ pc = "raised"
    /\ error = "ref_values"
    /\ Len(self.ref_values.v) = GreyChannels
    /\ ChannelsOf(call.inputs[1]) = 1
    /\ log = <<>>

\* C4: a call that returns returns exactly N explanations, the fitter was
\* called N times, the i-th time on the samples, labels and weights of input
\* i, and explanation i is the broadcast, through grouping i, of the
\* coefficients that i-th fit gave.
C4_OneExplanationPerInputInOrder ==
    pc = "done"
    => /\ Len(complete_explanations) = N
       /\ Len(FitEvents) = N
       /\ \A i \in 1..N :
            /\ FitEvents[i].i = i
            /\ FitEvents[i].data[1] = ExpInterpret(i)
            /\ FitEvents[i].data[2] = ExpLabels(i)
            /\ FitEvents[i].data[3] = ExpWeights(i)
            /\ complete_explanations[i] =
                   BroadcastExplanation(FitEvents[i].data[4], call.segs[i])

C4_Witness ==
    /\ pc = "done"
    /\ N = MaxN
    /\ self.batch_size = 2
    /\ args.interpretable_model = "ridge"
    /\ \A a, b \in 1..N : a # b => complete_explanations[a] # complete_explanations[b]

\* C5: every returned explanation has the grouping's width x height and its
\* value at (x, y) is the coefficient of the group of (x, y); a grouping that
\* puts every location in group 0 gives a uniform array.
C5_BroadcastIsGather ==
    pc = "done"
    => \A i \in DOMAIN complete_explanations :
         /\ Len(explanations[i]) = num_features[i]
         /\ DOMAIN complete_explanations[i] = DOMAIN mappings[i]
         /\ \A x \in Xs :
              /\ DOMAIN complete_explanations[i][x] = DOMAIN mappings[i][x]
              /\ \A y \in Ys :
                   /\ complete_explanations[i][x][y] = explanations[i][mappings[i][x][y] + 1]
                   /\ (\A l \in Locations : mappings[i][l[1]][l[2]] = 0)
                      => complete_explanations[i][x][y] = complete_explanations[i][1][1]

C5_Witness ==
    /\ pc = "done"
    /\ \E i \in DOMAIN complete_explanations :
         /\ num_features[i] = 3
         /\ \E a, b \in Locations :
              complete_explanations[i][a[1]][a[2]] # complete_explanations[i][b[1]][b[2]]

\* C6: a perturbed sample holds the original input's value where its mask is 1
\* and the reference value of the channel where its mask is 0; an all-ones
\* interpretable row gives the original input back, an all-zero row the
\* reference value everywhere.
C6_ApplyMasksSelects ==
    \A k \in DOMAIN pertubed_samples :
      \A r \in DOMAIN pertubed_samples[k] :
        /\ \A x \in Xs, y \in Ys, c \in DOMAIN ref_values :
             pertubed_samples[k][r][x][y][c] =
                 IF sample_masks[k][r][x][y] = 1 THEN chunk[k].inp[x][y][c]
                 ELSE ref_values[c]
        /\ (\A f \in DOMAIN interpret_samples[k][r] : interpret_samples[k][r][f] = 1)
           => pertubed_samples[k][r] = chunk[k].inp
        /\ (\A f \in DOMAIN interpret_samples[k][r] : interpret_samples[k][r][f] = 0)
           => \A x \in Xs, y \in Ys, c \in DOMAIN ref_values :
                pertubed_samples[k][r][x][y][c] = ref_values[c]

C6_Witness ==
    /\ pertubed_samples # <<>>
    /\ Len(pertubed_samples[1]) = 2
    /\ \A f \in DOMAIN interpret_samples[1][1] : interpret_samples[1][1][f] = 1
    /\ \A f \in DOMAIN interpret_samples[1][2] : interpret_samples[1][2][f] = 0
    /\ pertubed_samples[1][1] = chunk[1].inp
    /\ pertubed_samples[1][2] # chunk[1].inp
    /\ ~self.ref_values.none

\* C7: the mask batch of an input has one width x height mask per
\* interpretable row, whose value at (x, y) is the row's value for the group
\* of (x, y).
C7_MasksAreGather ==
    \A k \in DOMAIN sample_masks :
      /\ DOMAIN sample_masks[k] = 1..self.nb_samples
      /\ \A r \in DOMAIN sample_masks[k] :
           /\ DOMAIN sample_masks[k][r] = Xs
           /\ \A x \in Xs :
                /\ DOMAIN sample_masks[k][r][x] = Ys
                /\ \A y \in Ys :
                     sample_masks[k][r][x][y] =
                         interpret_samples[k][r][chunk[k].mapping[x][y] + 1]

C7_Witness ==
    /\ sample_masks # <<>>
    /\ chunk[1].num_features = 3
    /\ \E r \in DOMAIN sample_masks[1] : \E a, b \in Locations :
         sample_masks[1][r][a[1]][a[2]] # sample_masks[1][r][b[1]][b[2]]

\* C8: the default sampler returns nb_samples rows of num_features cells, each
\* 0 or 1, all 1 with prob = 1.0 and all 0 with prob = 0.0, whatever the
\* uniform source yields.
C8_SamplerIsBinary ==
    \A k \in DOMAIN interpret_samples :
      /\ DOMAIN interpret_samples[k] = 1..self.nb_samples
      /\ \A r \in DOMAIN interpret_samples[k] :
           /\ DOMAIN interpret_samples[k][r] = 1..chunk[k].num_features
           /\ \A f \in DOMAIN interpret_samples[k][r] :
                /\ interpret_samples[k][r][f] \in {0, 1}
                /\ self.prob = RandLevels => interpret_samples[k][r][f] = 1
                /\ self.prob = 0 => interpret_samples[k][r][f] = 0

C8_Witness ==
    /\ interpret_samples # <<>>
    /\ self.prob = 0
    /\ rng.stream = 0
    /\ Len(interpret_samples[1]) = MaxNbSamples
    /\ chunk[1].num_features = 3

\* C9: the feature count derived for an input is the largest group id of that
\* input's own grouping plus 1 (1 for an all-zero grouping), whatever the
\* other inputs' groupings.
C9_NumFeaturesPerInput ==
    InCompute
    => /\ DOMAIN num_features = 1..N
       /\ \A i \in 1..N :
            /\ \A l \in Locations : mappings[i][l[1]][l[2]] <= num_features[i] - 1
            /\ \E l \in Locations : mappings[i][l[1]][l[2]] = num_features[i] - 1
            /\ (\A l \in Locations : mappings[i][l[1]][l[2]] = 0) => num_features[i] = 1

C9_Witness ==
    /\ InCompute
    /\ N >= 3
    /\ \E a, b, c \in 1..N :
         num_features[a] = 1 /\ num_features[b] = 2 /\ num_features[c] = 3

\* the fitter as it was handed to __init__
FreshModel == [kind |-> args.interpretable_model, coef_ |-> <<>>]

\* C10 (as claimed): the explanation returned for an input is the one the
\* configured fitter, as constructed, gives on that input's own samples,
\* labels and weights, whatever other inputs the call holds: no fit reads what
\* the fit of another input left.
C10_FitsAreIndependent ==
    pc = "done"
    => \A i \in 1..N :
         complete_explanations[i] =
             BroadcastExplanation(
                 Fit(FreshModel, FitEvents[i].data[1], FitEvents[i].data[2],
                     FitEvents[i].data[3]).coef_,
                 call.segs[i])

\* the attributes __init__ stores for the arguments it was given
StoredConfig ==
    [batch_size |-> args.batch_size,
     similarity_kernel |->
         IF args.similarity_kernel = "None" THEN args.distance_mode
         ELSE args.similarity_kernel,
     ref_values |-> args.ref_values,
     nb_samples |-> args.nb_samples,
     batch_pertubed_samples |-> args.batch_pertubed_samples,
     prob |-> args.prob]

\* C11: a construction has emitted the oversized-inference warning exactly
\* when nb_samples >= 500 and batch_pertubed_samples is unset; a construction
\* that warned has completed, and the attributes it stored are the arguments as
\* given, warning or not.
C11_OomWarningIsAdvisory ==
    /\ "nb_samples" \in warned => (pc # "new" /\ error # "distance_mode")
    /\ (pc # "new" /\ error # "distance_mode")
       => /\ ("nb_samples" \in warned)
             <=> (args.nb_samples >= 500 /\ args.batch_pertubed_samples = 0)
          /\ self = StoredConfig

C11_Witness ==
    /\ pc = "ready"
    /\ "nb_samples" \in warned
    /\ args.nb_samples = WarnNbSamples
    /\ self.nb_samples = WarnNbSamples
    /\ self.batch_pertubed_samples = 0

\* C12: with no reference value configured, explain uses 0.5 (one half) in
\* every channel of inputs with exactly 3 channels and 0 in every channel of
\* inputs with another channel count; a configured reference value of the
\* inputs' channel count is used as it is.
C12_ReferenceValueUsed ==
    (InExplain /\ error # "ref_values")
    => LET C == ChannelsOf(call.inputs[1])
       IN  /\ DOMAIN ref_values = 1..C
           /\ self.ref_values.none
              => \A c \in 1..C : ref_values[c] = IF C = 3 THEN 1 ELSE 0
           /\ ~self.ref_values.none => ref_values = args.ref_values.v

C12_Witness ==
    /\ self.ref_values.none
    /\ ChannelsOf(call.inputs[1]) = GreyChannels + 1
    /\ pertubed_samples # <<>>
    /\ \E r \in DOMAIN pertubed_samples[1] :
         /\ \A f \in DOMAIN interpret_samples[1][r] : interpret_samples[1][r][f] = 0
         /\ \A x \in Xs, y \in Ys, c \in 1..(GreyChannels + 1) :
              pertubed_samples[1][r][x][y][c] = 0
         /\ pertubed_samples[1][r] # chunk[1].inp

CeilDiv(n, d) == (n + d - 1) \div d

\* C13 (as claimed): the look-ahead of the loop over the chunks has depth 2
\* exactly when the call has more than 2 chunks, ceil(N / batch_size) > 2, and
\* depth 0 otherwise; and whatever the depth, a call that returns returns, for
\* every input in input order, the broadcast of that input's fit.
C13_PrefetchWhenMoreThanTwoChunks ==
    InCompute
    => /\ nb_prefetch = IF CeilDiv(N, self.batch_size) > 2 THEN 2 ELSE 0
       /\ Len(prefetched) <= nb_prefetch
       /\ pc = "done"
          => \A i \in 1..N :
               /\ FitEvents[i].i = i
               /\ complete_explanations[i] =
                      BroadcastExplanation(explanations[i], mappings[i])

\* the place of a collaborator's call in the pipeline
StageRank(op) ==
    CASE op = "segmenter" -> 0
      [] op = "sampler"   -> 1
      [] op = "model"     -> 2
      [] op = "kernel"    -> 3
      [] op = "fit"       -> 4
      [] OTHER            -> 5

\* the chunk input i falls in
ChunkIndex(i) == CeilDiv(i, self.batch_size)

\* C14: in the calls made so far, the segmenter's call comes first, before any
\* sampling; for two calls on inputs of the same chunk, the one of the earlier
\* stage (sampler, oracle, kernel, fit) comes first; and when a coefficient
\* vector is broadcast, the N fits, that of input N included, have all been
\* made before.
C14_StagesInOrder ==
    /\ log # <<>> => log[1].op = "segmenter"
    /\ \A p, q \in DOMAIN log :
         /\ log[q].op = "segmenter" => q = 1
         /\ (/\ StageRank(log[p].op) \in 1..4
             /\ StageRank(log[q].op) \in 1..4
             /\ ChunkIndex(log[p].i) = ChunkIndex(log[q].i)
             /\ StageRank(log[p].op) < StageRank(log[q].op))
            => p < q
         /\ (log[p].op = "fit" /\ log[q].op = "broadcast") => p < q
    /\ (complete_explanations # <<>> \/ \E q \in DOMAIN log : log[q].op = "broadcast")
       => /\ Len(FitEvents) = N
          /\ FitEvents[N].i = N
          /\ batches = <<>> /\ prefetched = <<>>

C14_Witness ==
    /\ pc = "done"
    /\ N = MaxN
    /\ self.batch_size = 2
    /\ nb_prefetch = 0
    /\ Len(SelectSeq(log, LAMBDA e : e.op = "broadcast")) = N
    /\ Len(SelectSeq(log, LAMBDA e : e.op = "sampler")) = N

StageErrors == {"sampler", "model", "kernel", "fit"}

\* C15: once the sampler, the model, the kernel or the fitter has raised on
\* an input, the call has ended with that failure: the failing call is the
\* last call made and was made once (no retry), no stage has run on a later
\* chunk, nor this or a later stage on a later input of the chunk, nothing has
\* been broadcast and no explanation is returned, whatever was fitted before.
C15_FailureAbortsCall ==
    error \in StageErrors
    => LET f == log[Len(log)]
       IN  /\ pc = "raised"
           /\ f.op = error
           /\ Cardinality({p \in DOMAIN log : log[p].op = f.op /\ log[p].i = f.i}) = 1
           /\ \A p \in DOMAIN log :
                /\ log[p].op # "broadcast"
                /\ ChunkIndex(log[p].i) <= ChunkIndex(f.i)
                /\ (/\ ChunkIndex(log[p].i) = ChunkIndex(f.i)
                    /\ StageRank(log[p].op) >= StageRank(f.op))
                   => (log[p].i <= f.i /\ log[p].op = f.op)
           /\ complete_explanations = <<>>

C15_Witness ==
    /\ pc = "raised"
    /\ error = "kernel"
    /\ call.fault = [stage |-> "kernel", idx |-> 4]
    /\ self.batch_size = 2
    /\ Len(explanations) = 2
    /\ batches # <<>>
    /\ complete_explanations = <<>>

\* the label selector of input i, once per sample
LabelsOf(i) == [r \in 1..self.nb_samples |-> call.labels[i]]

\* the element of a chunk is input idx with its own labels, grouping and
\* feature count
AlignedElement(e) ==
    /\ e.idx \in 1..N
    /\ e.inp = call.inputs[e.idx]
    /\ e.labels = LabelsOf(e.idx)
    /\ e.mapping = call.segs[e.idx]
    /\ e.num_features = FeatureCount(e.idx)

\* the call made last
LastCall == log[Len(log)]

\* C16: whatever the batch size and the chunk, the element of a chunk that
\* stands for input i holds input i, label selector i, grouping i and feature
\* count i; the samples the sampler stage has just added have feature count
\* i columns, their masks are those samples through grouping i, the perturbed
\* samples are input i under those masks; the labels the oracle stage has just
\* added are the model's answers on them against label selector i; the
\* weights the kernel stage has just added are measured against input i; the
\* fit just made was the n-th, on input n, given such a triple; and a returned
\* explanation i is the broadcast of the i-th fit's coefficients through
\* grouping i.
C16_AlignedAcrossChunking ==
    /\ \A k \in DOMAIN chunk :
         /\ AlignedElement(chunk[k])
         /\ chunk[k].idx = chunk[1].idx + k - 1
         /\ ChunkIndex(chunk[k].idx) = ChunkIndex(chunk[1].idx)
    /\ \A b \in DOMAIN prefetched : \A k \in DOMAIN prefetched[b] :
         AlignedElement(prefetched[b][k])
    /\ (log # <<>> /\ LastCall.op = "sampler" /\ interpret_samples # <<>>)
       => LET k == Len(interpret_samples)
          IN  /\ \A r \in DOMAIN interpret_samples[k] :
                   Len(interpret_samples[k][r]) = FeatureCount(chunk[k].idx)
              /\ sample_masks[k] =
                     GetMasks(interpret_samples[k], call.segs[chunk[k].idx])
              /\ pertubed_samples[k] =
                     ApplyMasks(call.inputs[chunk[k].idx], sample_masks[k], ref_values)
    /\ (log # <<>> /\ LastCall.op = "model" /\ samples_labels # <<>>)
       => LET k == Len(samples_labels)
          IN  samples_labels[k] =
                  BatchPredictions(pertubed_samples[k], LabelsOf(chunk[k].idx))
    /\ (log # <<>> /\ LastCall.op = "kernel" /\ similarities # <<>>)
       => LET k == Len(similarities)
          IN  similarities[k] =
                  ComputeSimilarities(call.inputs[chunk[k].idx], pertubed_samples[k],
                                      interpret_samples[k], self.similarity_kernel)
    /\ (log # <<>> /\ LastCall.op = "fit" /\ LastCall.data # <<>>)
       => LET e    == LastCall
              n    == Len(FitEvents)
              pert == ApplyMasks(call.inputs[e.i], GetMasks(e.data[1], call.segs[e.i]),
                                 ref_values)
          IN  /\ e.i = n
              /\ e.data[2] = BatchPredictions(pert, LabelsOf(e.i))
              /\ e.data[3] = ComputeSimilarities(call.inputs[e.i], pert, e.data[1],
                                                 self.similarity_kernel)
              /\ Len(e.data[4]) = FeatureCount(e.i)
              /\ explanations[n] = e.data[4]
    /\ pc = "done"
       => \A i \in 1..N :
            /\ FitEvents[i].i = i
            /\ \A x \in Xs, y \in Ys :
                 complete_explanations[i][x][y] =
                     FitEvents[i].data[4][call.segs[i][x][y] + 1]

C16_Witness ==
    /\ pc = "fit"
    /\ self.batch_size = MaxBatchSize
    /\ N = MaxN
    /\ Len(chunk) = 2
    /\ chunk[2].idx = N
    /\ j = 2
    /\ Len(explanations) = N - 1
    /\ call.labels[N - 1] # call.labels[N]
    /\ call.segs[N - 1] # call.segs[N]
    /\ samples_labels[1] # samples_labels[2]

====
